---- MODULE Spec2Model ----
(***************************************************************************)
(* Model of src/ast/mod.rs: FunctionCtx, the lowering of Expr / Stmt trees *)
(* to register-machine instructions.                                       *)
(*                                                                         *)
(* A FunctionCtx is the record [vars, consts, free_reg, max_reg]; the      *)
(* model adds two history fields to it: fault (which panic, if any, ended  *)
(* the call) and trace (the allocator calls and lowering results of the    *)
(* current top-level call).  A panic is modelled by abort: once fault is   *)
(* set, every later step of the call leaves the context as it was when the *)
(* panic was raised.                                                       *)
(*                                                                         *)
(* u8 and i16 arithmetic that leaves the type's range panics in a build    *)
(* with overflow checks and wraps in a build without them; overflow_checks *)
(* is fixed by Init and both builds are explored.                          *)
(*                                                                         *)
(* Spec, SpecAny: calls of compile (handles distinct / unrestricted).      *)
(* SpecPool: calls of get_const.  SpecCalls: calls of get_const,           *)
(* compile_expr and compile.  SpecAlloc: calls of push_tmp, pop_tmp and    *)
(* compile.                                                                *)
(*                                                                         *)
(* Expressions:  <<"Lit", v>>  <<"Var", n>>  <<"Binop", op, l, r>>         *)
(*               <<"Mktup", parts>>  (other tags: unimplemented!())        *)
(* Statements:   <<"Declare", n>>  <<"RawExpr", e>>  <<"Assign", n, e>>    *)
(*               <<"If", cond, true_block, false_block>>                   *)
(* Instructions: <<"Const", reg, k>>  <<op, dest, l, r>>                   *)
(*               <<"MkTup", dest, start, end>>  <<"Copy", dest, src>>      *)
(*               <<"CondJump", cond, 2, 1>>  <<"Jump", offset>>            *)
(***************************************************************************)
EXTENDS Integers, Sequences, FiniteSets

VARIABLES
    vars,       \* FunctionCtx.vars: handle -> home register
    consts,     \* FunctionCtx.consts: the constant pool
    free_reg,   \* FunctionCtx.free_reg: the allocator cursor
    max_reg,    \* FunctionCtx.max_reg: the high-water mark
    fault,      \* "none", or the panic that ended the last call
    trace,      \* history: events of the last top-level call
    call,       \* history: the block passed to the last compile call
    result,     \* history: the instructions the last call returned
    pre,        \* history: the context before the last call
    declared,   \* history: handles in the order Declare was lowered
    decl_only,  \* history: every call so far was a single Declare
    requested,  \* history: <<value, index>> pairs of direct get_const calls
    peak,       \* history: the largest value free_reg has held
    overflow_checks  \* the build traps integer overflow (rustc's default
                     \* for a debug build) or wraps (a release build)

state == <<vars, consts, free_reg, max_reg, fault, trace, call, result, pre,
           declared, decl_only, requested, peak, overflow_checks>>

----------------------------------------------------------------------------
(* Bounds of the model *)

NumNames == 2
MaxVal == 3
MaxTupLen == 2
MaxDeclares == 3
MaxPool == 257
MaxRegs == 4

(* Addr is u8 *)
AddrModulus == 256
(* i16::MAX + 1 *)
I16Half == 32768

Names == 1..NumNames
Vals == 2..MaxVal

----------------------------------------------------------------------------
(* AST and instruction constructors *)

Lit(v) == <<"Lit", v>>
Var(n) == <<"Var", n>>
Binop(op, l, r) == <<"Binop", op, l, r>>
Mktup(parts) == <<"Mktup", parts>>

Declare(n) == <<"Declare", n>>
RawExpr(e) == <<"RawExpr", e>>
Assign(n, e) == <<"Assign", n, e>>
If(c, t, f) == <<"If", c, t, f>>

BinopTags == {"Add", "Sub", "Mul", "Div", "Rem", "And", "Orr", "Xor",
              "Gt", "Lt", "Geq", "Leq", "Eq", "Neq"}

----------------------------------------------------------------------------
(* FunctionCtx *)

New == [vars |-> [n \in {} |-> 0], consts |-> <<>>, free_reg |-> 0,
        max_reg |-> 0, fault |-> "none", trace |-> <<>>]

\* let x = v; Body(x): v is evaluated before the body, as a Rust let binding.
Let(v, Body(_)) == CHOOSE y \in {Body(x) : x \in {v}} : TRUE

Log(c, e) == [c EXCEPT !.trace = Append(@, e)]

Panic(c, what) == [c EXCEPT !.fault = what]

\* A cast to u8 never panics; it keeps the low eight bits.
AsU8(n) == n % AddrModulus

\* Arithmetic on Addr whose result n leaves the range of u8 panics where the
\* build checks overflow and wraps (AsU8) where it does not.
Overflows(n) == overflow_checks /\ (n < 0 \/ n >= AddrModulus)

Homes(c) == {c.vars[n] : n \in DOMAIN c.vars}

AsI16(n) == ((n + I16Half) % (2 * I16Half)) - I16Half

PushTmp(c) ==
    IF c.fault # "none" THEN [ctx |-> c, reg |-> c.free_reg]
    ELSE IF Overflows(c.free_reg + 1)
    THEN [ctx |-> Panic(c, "overflow"), reg |-> c.free_reg]
    ELSE LET reg == c.free_reg
             free == AsU8(c.free_reg + 1)
             c1 == [c EXCEPT !.free_reg = free,
                             !.max_reg = IF free > @ THEN free ELSE @]
         IN [ctx |-> Log(c1, [ev |-> "push", reg |-> reg, now |-> free,
                              homes |-> Homes(c)]),
             reg |-> reg]

PopTmp(c, addr) ==
    IF c.fault # "none" THEN c
    ELSE LET nvars == Cardinality(DOMAIN c.vars)
             event(now) == [ev |-> "pop", addr |-> addr, free |-> c.free_reg,
                            home |-> addr \in Homes(c), nvars |-> nvars,
                            now |-> now]
         IN IF addr < nvars THEN Log(c, event(c.free_reg))
            ELSE IF Overflows(addr + 1)
            THEN Panic(Log(c, event(c.free_reg)), "overflow")
            ELSE IF c.free_reg # AsU8(addr + 1)
            THEN Panic(Log(c, event(c.free_reg)), "pop_tmp")
            ELSE Log([c EXCEPT !.free_reg = addr], event(addr))

\* Variant: the value is appended without the scan for an equal entry.
GetConstNoScan(c, val) ==
    IF c.fault # "none" THEN [ctx |-> c, idx |-> 0]
    ELSE LET c1 == [c EXCEPT !.consts = Append(@, val)]
         IN [ctx |-> c1, idx |-> AsU8(Len(c1.consts) - 1)]

GetConst(c, val) ==
    IF c.fault # "none" THEN [ctx |-> c, idx |-> 0]
    ELSE LET hits == {i \in 1..Len(c.consts) : c.consts[i] = val}
         IN IF hits # {}
            THEN [ctx |-> c,
                  idx |-> AsU8((CHOOSE i \in hits : \A j \in hits : i <= j) - 1)]
            ELSE LET c1 == [c EXCEPT !.consts = Append(@, val)]
                 IN [ctx |-> c1, idx |-> AsU8(Len(c1.consts) - 1)]

----------------------------------------------------------------------------
(* Expression lowering *)

RECURSIVE CompileExpr(_, _), CompileParts(_, _, _), Compile(_, _)

BinopInstr(op, reg, left_dest, right_dest) ==
    CASE op = "Add" -> <<"Add", reg, left_dest, right_dest>>
      [] op = "Sub" -> <<"Sub", reg, left_dest, right_dest>>
      [] op = "Mul" -> <<"Mul", reg, left_dest, right_dest>>
      [] op = "Div" -> <<"Div", reg, left_dest, right_dest>>
      [] op = "Rem" -> <<"Rem", reg, left_dest, right_dest>>
      [] op = "And" -> <<"And", reg, left_dest, right_dest>>
      [] op = "Orr" -> <<"Orr", reg, left_dest, right_dest>>
      [] op = "Xor" -> <<"Xor", reg, left_dest, right_dest>>
      [] op = "Gt" -> <<"Gt", reg, left_dest, right_dest>>
      [] op = "Lt" -> <<"Lt", reg, left_dest, right_dest>>
      [] op = "Geq" -> <<"Geq", reg, left_dest, right_dest>>
      [] op = "Leq" -> <<"Leq", reg, left_dest, right_dest>>
      [] op = "Eq" -> <<"Eq", reg, left_dest, right_dest>>
      [] op = "Neq" -> <<"Neq", reg, left_dest, right_dest>>

CompileLit(c, val) ==
    Let(PushTmp(c), LAMBDA p :
    Let(GetConst(p.ctx, val), LAMBDA k :
        [ctx |-> k.ctx, reg |-> p.reg, code |-> << <<"Const", p.reg, k.idx>> >>]))

\* Variant: the variable is copied into a fresh temporary.
CompileVarCopy(c, name) ==
    IF c.fault # "none" THEN [ctx |-> c, reg |-> 0, code |-> <<>>]
    ELSE IF name \notin DOMAIN c.vars
    THEN [ctx |-> Panic(c, "no_var"), reg |-> 0, code |-> <<>>]
    ELSE Let(PushTmp(c), LAMBDA p :
             [ctx |-> p.ctx, reg |-> p.reg,
              code |-> << <<"Copy", p.reg, c.vars[name]>> >>])

CompileVar(c, name) ==
    IF c.fault # "none" THEN [ctx |-> c, reg |-> 0, code |-> <<>>]
    ELSE IF name \notin DOMAIN c.vars
    THEN [ctx |-> Panic(c, "no_var"), reg |-> 0, code |-> <<>>]
    ELSE [ctx |-> c, reg |-> c.vars[name], code |-> <<>>]

\* Variant: the operand registers released in allocation order.
BinopReleaseLeftFirst(c, left_dest, right_dest) ==
    PopTmp(PopTmp(c, left_dest), right_dest)

\* self.pop_tmp(right_dest); self.pop_tmp(left_dest)
BinopRelease(c, left_dest, right_dest) ==
    PopTmp(PopTmp(c, right_dest), left_dest)

\* Variant: no result register is reserved; the operator writes into the
\* left operand's register.
CompileBinopIntoLeft(c, op, left, right) ==
    Let(CompileExpr(c, left), LAMBDA l :
    Let(CompileExpr(l.ctx, right), LAMBDA r :
    Let(BinopInstr(op, l.reg, l.reg, r.reg), LAMBDA instr :
        [ctx |-> PopTmp(r.ctx, r.reg), reg |-> l.reg,
         code |-> (l.code \o r.code) \o <<instr>>])))

\* Variant: the right operand's instructions are placed before the left's.
CompileBinopRightFirst(c, op, left, right) ==
    Let(PushTmp(c), LAMBDA p :
    Let(CompileExpr(p.ctx, left), LAMBDA l :
    Let(CompileExpr(l.ctx, right), LAMBDA r :
    Let(BinopInstr(op, p.reg, l.reg, r.reg), LAMBDA instr :
    Let(BinopRelease(r.ctx, l.reg, r.reg), LAMBDA c1 :
    Let((r.code \o l.code) \o <<instr>>, LAMBDA code :
        [ctx |-> IF c1.fault # "none" THEN c1
                 ELSE Log(c1, [ev |-> "binop", op |-> op, pre_free |-> c.free_reg,
                               reg |-> p.reg, left_reg |-> l.reg,
                               right_reg |-> r.reg, left_code |-> l.code,
                               right_code |-> r.code, code |-> code]),
         reg |-> p.reg, code |-> code]))))))

\* Variant: the left operand's register is released before the right
\* operand is lowered.
CompileBinopEarlyRelease(c, op, left, right) ==
    Let(PushTmp(c), LAMBDA p :
    Let(CompileExpr(p.ctx, left), LAMBDA l :
    Let(CompileExpr(PopTmp(l.ctx, l.reg), right), LAMBDA r :
    Let(BinopInstr(op, p.reg, l.reg, r.reg), LAMBDA instr :
    Let(PopTmp(r.ctx, r.reg), LAMBDA c1 :
    Let((l.code \o r.code) \o <<instr>>, LAMBDA code :
        [ctx |-> IF c1.fault # "none" THEN c1
                 ELSE Log(c1, [ev |-> "binop", op |-> op, pre_free |-> c.free_reg,
                               reg |-> p.reg, left_reg |-> l.reg,
                               right_reg |-> r.reg, left_code |-> l.code,
                               right_code |-> r.code, code |-> code]),
         reg |-> p.reg, code |-> code]))))))

CompileBinop(c, op, left, right) ==
    Let(PushTmp(c), LAMBDA p :
    Let(CompileExpr(p.ctx, left), LAMBDA l :
    Let(CompileExpr(l.ctx, right), LAMBDA r :
    Let(BinopInstr(op, p.reg, l.reg, r.reg), LAMBDA instr :
    Let(BinopRelease(r.ctx, l.reg, r.reg), LAMBDA c1 :
    Let((l.code \o r.code) \o <<instr>>, LAMBDA code :
        [ctx |-> IF c1.fault # "none" THEN c1
                 ELSE Log(c1, [ev |-> "binop", op |-> op, pre_free |-> c.free_reg,
                               reg |-> p.reg, left_reg |-> l.reg,
                               right_reg |-> r.reg, left_code |-> l.code,
                               right_code |-> r.code, code |-> code]),
         reg |-> p.reg, code |-> code]))))))

\* for (i, part) in parts.iter().enumerate()
CompileParts(acc, parts, i) ==
    IF i > Len(parts) THEN acc
    ELSE Let(CompileExpr(acc.ctx, parts[i]), LAMBDA r :
             CompileParts([ctx |-> r.ctx, code |-> acc.code \o r.code,
                           part_addrs |-> Append(acc.part_addrs, r.reg),
                           part_codes |-> Append(acc.part_codes, r.code)],
                          parts, i + 1))

RECURSIVE PopRev(_, _)

\* Variant: the first element's register is never released.
PopRevLeak(c, part_addrs) ==
    IF Len(part_addrs) <= 1 THEN c
    ELSE PopRev(PopTmp(c, part_addrs[Len(part_addrs)]),
                SubSeq(part_addrs, 1, Len(part_addrs) - 1))

\* for addr in part_addrs.iter().rev(): self.pop_tmp(addr)
PopRev(c, part_addrs) ==
    IF part_addrs = <<>> THEN c
    ELSE PopRev(PopTmp(c, part_addrs[Len(part_addrs)]),
                SubSeq(part_addrs, 1, Len(part_addrs) - 1))

\* (start_addr + parts.len() as u8 - 1) as u8
EndAddr(start_addr, n) == AsU8(AsU8(start_addr + AsU8(n)) - 1)

EndAddrOverflows(start_addr, n) ==
    Overflows(start_addr + AsU8(n)) \/ Overflows(AsU8(start_addr + AsU8(n)) - 1)

\* Variant: without the assertion; an empty tuple starts at its own register.
CompileMktupNoAssert(c, parts) ==
    Let(PushTmp(c), LAMBDA p :
    Let(CompileParts([ctx |-> p.ctx, code |-> <<>>, part_addrs |-> <<>>,
                      part_codes |-> <<>>], parts, 1), LAMBDA loop :
        IF loop.ctx.fault # "none"
        THEN [ctx |-> loop.ctx, reg |-> p.reg, code |-> <<>>]
        ELSE
    Let(IF loop.part_addrs = <<>> THEN p.reg ELSE loop.part_addrs[1],
        LAMBDA start_addr :
    Let(EndAddr(start_addr, Len(parts)), LAMBDA end_addr :
    Let(PopRev(loop.ctx, loop.part_addrs), LAMBDA c1 :
        [ctx |-> c1, reg |-> p.reg,
         code |-> Append(loop.code, <<"MkTup", p.reg, start_addr, end_addr>>)])))))

CompileMktup(c, parts) ==
    Let(PushTmp(c), LAMBDA p :
    Let(CompileParts([ctx |-> p.ctx, code |-> <<>>, part_addrs |-> <<>>,
                      part_codes |-> <<>>], parts, 1), LAMBDA loop :
        IF loop.ctx.fault # "none"
        THEN [ctx |-> loop.ctx, reg |-> p.reg, code |-> <<>>]
        ELSE IF Len(loop.part_addrs) = 0
        THEN [ctx |-> Panic(loop.ctx, "start_addr"), reg |-> p.reg, code |-> <<>>]
        ELSE IF EndAddrOverflows(loop.part_addrs[1], Len(parts))
        THEN [ctx |-> Panic(loop.ctx, "overflow"), reg |-> p.reg, code |-> <<>>]
        ELSE
    Let(loop.part_addrs[1], LAMBDA start_addr :
    Let(EndAddr(start_addr, Len(parts)), LAMBDA end_addr :
    Let(PopRev(loop.ctx, loop.part_addrs), LAMBDA c1 :
        [ctx |-> IF c1.fault # "none" THEN c1
                 ELSE Log(c1, [ev |-> "mktup", reg |-> p.reg,
                               part_addrs |-> loop.part_addrs,
                               part_codes |-> loop.part_codes,
                               start |-> start_addr, end |-> end_addr]),
         reg |-> p.reg,
         code |-> Append(loop.code, <<"MkTup", p.reg, start_addr, end_addr>>)])))))

CompileExprMatch(c, expr) ==
    CASE expr[1] = "Lit" -> CompileLit(c, expr[2])
      [] expr[1] = "Var" -> CompileVar(c, expr[2])
      [] expr[1] = "Binop" -> CompileBinop(c, expr[2], expr[3], expr[4])
      [] expr[1] = "Mktup" -> CompileMktup(c, expr[2])
      [] OTHER -> [ctx |-> IF c.fault # "none" THEN c ELSE Panic(c, "unimplemented"),
                   reg |-> 0, code |-> <<>>]

\* compile_expr; a call that returns is recorded in the trace
CompileExpr(c, expr) ==
    Let(CompileExprMatch(c, expr), LAMBDA r :
        IF r.ctx.fault # "none" THEN r
        ELSE [r EXCEPT !.ctx = Log(@, [ev |-> "expr", kind |-> expr[1],
                                       pre_free |-> c.free_reg,
                                       post_free |-> r.ctx.free_reg,
                                       reg |-> r.reg, ncode |-> Len(r.code),
                                       code |-> r.code, homes |-> Homes(c)])])

----------------------------------------------------------------------------
(* Statement and block lowering *)

\* Variant: the handle is bound to the cursor after the allocation.
CompileDeclareNext(c, name) ==
    IF c.fault # "none" THEN [ctx |-> c, code |-> <<>>]
    ELSE
    Let(PushTmp(c), LAMBDA p :
        IF p.ctx.fault # "none" THEN [ctx |-> p.ctx, code |-> <<>>]
        ELSE
    Let([p.ctx EXCEPT !.vars = [n \in DOMAIN @ \cup {name} |->
                                   IF n = name THEN p.ctx.free_reg ELSE @[n]]],
        LAMBDA c1 :
        [ctx |-> Log(c1, [ev |-> "declare", name |-> name, reg |-> p.reg,
                          rebound |-> name \in DOMAIN c.vars]),
         code |-> <<>>]))

CompileDeclare(c, name) ==
    IF c.fault # "none" THEN [ctx |-> c, code |-> <<>>]
    ELSE
    Let(PushTmp(c), LAMBDA p :
        IF p.ctx.fault # "none" THEN [ctx |-> p.ctx, code |-> <<>>]
        ELSE
    Let([p.ctx EXCEPT !.vars = [n \in DOMAIN @ \cup {name} |->
                                   IF n = name THEN p.reg ELSE @[n]]],
        LAMBDA c1 :
        [ctx |-> Log(c1, [ev |-> "declare", name |-> name, reg |-> p.reg,
                          rebound |-> name \in DOMAIN c.vars]),
         code |-> <<>>]))

CompileRawExpr(c, expr) ==
    Let(CompileExpr(c, expr), LAMBDA r :
        [ctx |-> PopTmp(r.ctx, r.reg), code |-> r.code])

\* Variant: the operands of the copy are exchanged.
CompileAssignCopyBack(c, name, expr) ==
    IF c.fault # "none" THEN [ctx |-> c, code |-> <<>>]
    ELSE IF name \notin DOMAIN c.vars
    THEN [ctx |-> Panic(c, "no_var"), code |-> <<>>]
    ELSE
    Let(c.vars[name], LAMBDA dest :
    Let(CompileExpr(c, expr), LAMBDA r :
        [ctx |-> PopTmp(r.ctx, r.reg),
         code |-> Append(r.code, <<"Copy", r.reg, dest>>)]))

\* Variant: the handle is looked up after the expression is lowered.
CompileAssignLateLookup(c, name, expr) ==
    Let(CompileExpr(c, expr), LAMBDA r :
        IF r.ctx.fault # "none" THEN [ctx |-> r.ctx, code |-> <<>>]
        ELSE IF name \notin DOMAIN r.ctx.vars
        THEN [ctx |-> Panic(r.ctx, "no_var"), code |-> <<>>]
        ELSE [ctx |-> PopTmp(r.ctx, r.reg),
              code |-> Append(r.code, <<"Copy", r.ctx.vars[name], r.reg>>)])

CompileAssign(c, name, expr) ==
    IF c.fault # "none" THEN [ctx |-> c, code |-> <<>>]
    ELSE IF name \notin DOMAIN c.vars
    THEN [ctx |-> Panic(c, "no_var"), code |-> <<>>]
    ELSE
    Let(c.vars[name], LAMBDA dest :
    Let(CompileExpr(c, expr), LAMBDA r :
        [ctx |-> PopTmp(r.ctx, r.reg),
         code |-> Append(r.code, <<"Copy", dest, r.reg>>)]))

\* Arithmetic on i16 whose result n leaves the range of i16 panics where the
\* build checks overflow and wraps (AsI16) where it does not.
Overflows16(n) == overflow_checks /\ (n < -I16Half \/ n >= I16Half)

\* Variant: the offset forgets the jump that follows the true block.
JumpOverTrueShort(true_len) == AsI16(AsI16(true_len) + 1)

\* Jump(true_code.len() as i16 + 2)
JumpOverTrue(true_len) == AsI16(AsI16(true_len) + 2)

\* Jump(false_code.len() as i16 + 1)
JumpOverFalse(false_len) == AsI16(AsI16(false_len) + 1)

\* One of the two additions above overflows.
JumpOverflows(true_len, false_len) ==
    Overflows16(AsI16(true_len) + 2) \/ Overflows16(AsI16(false_len) + 1)

\* Variant: the conditional jump is followed directly by the true block.
StitchNoSkip(code, true_code, false_code) ==
    (code \o true_code)
        \o (<< <<"Jump", JumpOverFalse(Len(false_code))>> >> \o false_code)

\* code.push(Jump(..)); code.append(true_code); code.push(Jump(..));
\* code.append(false_code)
Stitch(code, true_code, false_code) ==
    (Append(code, <<"Jump", JumpOverTrue(Len(true_code))>>) \o true_code)
        \o (<< <<"Jump", JumpOverFalse(Len(false_code))>> >> \o false_code)

\* Variant: the condition's register is not released before the blocks.
CompileIfKeepCond(c, cond, true_block, false_block) ==
    Let(CompileExpr(c, cond), LAMBDA r :
    Let(Append(r.code, <<"CondJump", r.reg, 2, 1>>), LAMBDA code1 :
    Let(Compile(r.ctx, true_block), LAMBDA t :
    Let(Compile(t.ctx, false_block), LAMBDA f :
    Let(Stitch(code1, t.code, f.code), LAMBDA code2 :
        [ctx |-> PopTmp(f.ctx, r.reg), code |-> code2])))))

CompileIf(c, cond, true_block, false_block) ==
    Let(CompileExpr(c, cond), LAMBDA r :
    Let(Append(r.code, <<"CondJump", r.reg, 2, 1>>), LAMBDA code1 :
    Let(PopTmp(r.ctx, r.reg), LAMBDA c1 :
    Let(Compile(c1, true_block), LAMBDA t :
    Let(Compile(t.ctx, false_block), LAMBDA f :
        IF f.ctx.fault = "none" /\ JumpOverflows(Len(t.code), Len(f.code))
        THEN [ctx |-> Panic(f.ctx, "overflow"), code |-> <<>>]
        ELSE
    Let(Stitch(code1, t.code, f.code), LAMBDA code2 :
        [ctx |-> IF f.ctx.fault # "none" THEN f.ctx
                 ELSE Log(f.ctx, [ev |-> "if", cond_code |-> r.code,
                                  true_code |-> t.code, false_code |-> f.code,
                                  code |-> code2]),
         code |-> code2]))))))

CompileStmtMatch(c, stmt) ==
    CASE stmt[1] = "Declare" -> CompileDeclare(c, stmt[2])
      [] stmt[1] = "RawExpr" -> CompileRawExpr(c, stmt[2])
      [] stmt[1] = "Assign" -> CompileAssign(c, stmt[2], stmt[3])
      [] stmt[1] = "If" -> CompileIf(c, stmt[2], stmt[3], stmt[4])
      [] OTHER -> [ctx |-> IF c.fault # "none" THEN c ELSE Panic(c, "unimplemented"),
                   code |-> <<>>]

\* compile_stmt; a call that returns is recorded in the trace with the
\* context at its two boundaries
CompileStmt(c, stmt) ==
    Let(CompileStmtMatch(c, stmt), LAMBDA s :
        IF s.ctx.fault # "none" THEN s
        ELSE [s EXCEPT !.ctx = Log(@, [ev |-> "stmt", stmt |-> stmt,
                                       pre_free |-> c.free_reg,
                                       pre_vars |-> c.vars,
                                       post_free |-> s.ctx.free_reg,
                                       post_vars |-> s.ctx.vars,
                                       code |-> s.code])])

Compile(c, code) ==
    IF code = <<>> THEN [ctx |-> c, code |-> <<>>]
    ELSE Let(CompileStmt(c, Head(code)), LAMBDA s :
         Let(Compile(s.ctx, Tail(code)), LAMBDA rest :
             [ctx |-> rest.ctx, code |-> s.code \o rest.code]))

----------------------------------------------------------------------------
(* The programs handed to the context *)

Atoms == {Lit(v) : v \in Vals} \cup {Var(n) : n \in Names}

TupElems == {Lit(2), Var(1), Var(NumNames)}

TuplesOf(S) == UNION {[1..k -> S] : k \in 1..MaxTupLen}

Flat == {Binop("Lt", a, b) : a \in Atoms, b \in Atoms}
        \cup {Mktup(p) : p \in TuplesOf(TupElems)}

Inner == {Lit(2), Var(1),
          Binop("Sub", Lit(2), Var(1)), Binop("Mul", Var(1), Lit(2)),
          Mktup(<<Lit(2)>>), Mktup(<<Var(1), Lit(2)>>)}

Nested == {Binop("Eq", x, y) : x \in Inner, y \in Inner}
          \cup {Mktup(<<x, y>>) : x \in Inner, y \in Inner}

Deep == {Binop("Xor", Binop("Rem", Mktup(<<Lit(2), Lit(2)>>), Lit(2)),
                      Mktup(<<Binop("And", Lit(2), Lit(2))>>)),
         Mktup(<<Mktup(<<Mktup(<<Lit(2)>>), Lit(2)>>),
                 Binop("Orr", Binop("Div", Lit(2), Lit(2)), Lit(2))>>)}

Exprs == Atoms \cup Flat \cup Nested \cup Deep

AssignExprs == Atoms \cup {Binop("Gt", Var(1), Lit(2)), Mktup(<<Lit(2), Lit(2)>>)}

Conds == {Lit(2), Var(1), Binop("Leq", Var(1), Lit(2))}

Blocks == {<<>>,
           <<Assign(1, Lit(2))>>,
           <<Declare(2)>>,
           <<RawExpr(Mktup(<<Var(1)>>)), Assign(1, Binop("Geq", Var(1), Lit(2)))>>,
           <<If(Var(1), <<Assign(1, Lit(2))>>, <<>>)>>,
           <<Declare(2), If(Lit(2), <<>>, <<Assign(2, Var(1)), RawExpr(Var(2))>>)>>}

\* Blocks lowered between direct calls of the context's other methods.
CallBlocks == {<<RawExpr(Binop("Add", Lit(2), Var(1)))>>,
               <<Assign(1, Mktup(<<Lit(2), Lit(2)>>))>>,
               <<Assign(2, Lit(2))>>,
               <<If(Var(1), <<Declare(2)>>, <<RawExpr(Lit(2))>>)>>}

Programs == {<<Declare(n), Assign(n, Binop(op, Lit(a), Lit(b)))>> :
                 n \in Names, op \in {"Add", "Neq"}, a \in Vals, b \in Vals}

----------------------------------------------------------------------------
(* The state machine: calls on one FunctionCtx *)

Ctx == [vars |-> vars, consts |-> consts, free_reg |-> free_reg,
        max_reg |-> max_reg, fault |-> fault, trace |-> <<>>]

Events(tr, kind) == SelectSeq(tr, LAMBDA e : e.ev = kind)

Max(S) == CHOOSE m \in S : \A x \in S : x <= m

\* The largest value free_reg held during a call with allocator events tr.
PeakIn(tr, before) ==
    Max({before} \cup {tr[i].now : i \in {j \in 1..Len(tr) : tr[j].ev \in {"push", "pop"}}})

DeclaredIn(tr) ==
    LET d == Events(tr, "declare") IN [i \in 1..Len(d) |-> d[i].name]

Init ==
    /\ vars = New.vars
    /\ consts = New.consts
    /\ free_reg = New.free_reg
    /\ max_reg = New.max_reg
    /\ fault = "none"
    /\ trace = <<>>
    /\ call = <<>>
    /\ result = <<>>
    /\ pre = [New EXCEPT !.trace = <<TRUE>>]
    /\ declared = <<>>
    /\ decl_only = TRUE
    /\ requested = {}
    /\ peak = 0
    /\ overflow_checks \in BOOLEAN

NoDuplicates(seq) == \A i, j \in 1..Len(seq) : seq[i] = seq[j] => i = j

\* One call of compile(code).  distinct: the handles given to Declare are
\* pairwise distinct, as the upstream resolution pass guarantees.
Run(code, distinct) ==
    /\ fault = "none"
    /\ call = <<>>
    /\ \E r \in {Compile(Ctx, code)} :
       \E d \in {DeclaredIn(r.ctx.trace)} :
       /\ Len(declared) + Len(d) <= MaxDeclares
       /\ distinct => NoDuplicates(declared \o d)
       /\ vars' = r.ctx.vars
       /\ consts' = r.ctx.consts
       /\ free_reg' = r.ctx.free_reg
       /\ max_reg' = r.ctx.max_reg
       /\ fault' = r.ctx.fault
       /\ trace' = r.ctx.trace
       /\ call' = code
       /\ result' = IF r.ctx.fault = "none" THEN r.code ELSE <<>>
       /\ pre' = [Ctx EXCEPT !.trace = <<decl_only>>]
       /\ declared' = declared \o d
       /\ decl_only' = (decl_only /\ Len(code) = 1 /\ code[1][1] = "Declare")
       /\ peak' = PeakIn(r.ctx.trace, peak)
       /\ UNCHANGED <<requested, overflow_checks>>

DeclareStmt(distinct) == \E n \in Names : Run(<<Declare(n)>>, distinct)

RawExprStmt(distinct) == \E e \in Exprs : Run(<<RawExpr(e)>>, distinct)

AssignStmt(distinct) ==
    \E n \in Names, e \in AssignExprs : Run(<<Assign(n, e)>>, distinct)

IfStmt(distinct) ==
    \E c \in Conds, t \in Blocks, f \in Blocks : Run(<<If(c, t, f)>>, distinct)

Program(distinct) == \E p \in Programs : Run(p, distinct)

CompileCall(distinct) == \E code \in CallBlocks : Run(code, distinct)

\* The caller takes the returned instructions; the context is ready for the
\* next call.
Take ==
    /\ fault = "none"
    /\ call # <<>>
    /\ call' = <<>>
    /\ result' = <<>>
    /\ trace' = <<>>
    /\ pre' = [Ctx EXCEPT !.trace = <<decl_only>>]
    /\ UNCHANGED <<vars, consts, free_reg, max_reg, fault, declared, decl_only,
                   requested, peak, overflow_checks>>

\* The outcome of a direct call `what` of one of the context's methods.
Returns(c, what, value) ==
    /\ vars' = c.vars
    /\ consts' = c.consts
    /\ free_reg' = c.free_reg
    /\ max_reg' = c.max_reg
    /\ fault' = c.fault
    /\ trace' = c.trace
    /\ call' = <<what>>
    /\ result' = IF c.fault = "none" THEN value ELSE <<>>
    /\ pre' = [Ctx EXCEPT !.trace = <<decl_only>>]
    /\ decl_only' = FALSE
    /\ peak' = PeakIn(c.trace, peak)
    /\ UNCHANGED <<declared, overflow_checks>>

\* A direct call of push_tmp().
PushTmpCall ==
    /\ fault = "none"
    /\ call = <<>>
    /\ free_reg < MaxRegs
    /\ \E p \in {PushTmp(Ctx)} : Returns(p.ctx, <<"push_tmp">>, <<p.reg>>)
    /\ UNCHANGED requested

\* The addresses handed to pop_tmp: every register the bounded calls can
\* allocate, registers never allocated, and the largest address.
PopAddrs == 0..(MaxRegs + 1) \cup {AddrModulus - 2, AddrModulus - 1}

\* A direct call of pop_tmp(addr).
PopTmpCall ==
    /\ fault = "none"
    /\ call = <<>>
    /\ \E addr \in PopAddrs :
        \E c \in {PopTmp(Ctx, addr)} : Returns(c, <<"pop_tmp", addr>>, <<>>)
    /\ UNCHANGED requested

\* The expressions handed to compile_expr directly; the last three are
\* variants the code does not lower.
CallExprs == {Lit(2), Lit(3), Var(1), Var(2),
              Binop("Add", Lit(2), Lit(3)), Binop("Sub", Var(1), Lit(2)),
              Binop("Mul", Binop("Div", Lit(3), Var(2)), Mktup(<<Lit(2)>>)),
              Mktup(<<Var(1), Lit(2)>>),
              Mktup(<<>>), Mktup(<<Lit(2), Mktup(<<>>)>>),
              Binop("Add", Lit(3), Mktup(<<>>)),
              <<"Unop", "Negate", Lit(2)>>, <<"Call", Var(1), <<>>>>,
              <<"Index", Var(1), Lit(2)>>}

\* A direct call of compile_expr(e); the caller keeps the result register.
CompileExprCall ==
    /\ fault = "none"
    /\ call = <<>>
    /\ free_reg < MaxRegs
    /\ \E e \in CallExprs :
        \E r \in {CompileExpr(Ctx, e)} :
            Returns(r.ctx, <<"compile_expr", e>>, <<r.reg, r.code>>)
    /\ UNCHANGED requested

\* A direct call of get_const(val).
GetConstOf(val) ==
    /\ fault = "none"
    /\ \E k \in {GetConst(Ctx, val)} :
        /\ Returns(k.ctx, <<"get_const", val>>, <<k.idx>>)
        /\ requested' = requested \cup {<<val, k.idx>>}

\* get_const of a value not requested before, or of one of the values
\* already in the pool.
GetConstCall ==
    \E val \in {1, Len(consts), Len(consts) + 1} \cap 1..MaxPool : GetConstOf(val)

\* get_const of a literal of CallExprs or of a value no program holds.
GetConstSmall == \E val \in {2, 3, MaxVal + 1} : GetConstOf(val)

Next ==
    \/ DeclareStmt(TRUE)
    \/ RawExprStmt(TRUE)
    \/ AssignStmt(TRUE)
    \/ IfStmt(TRUE)
    \/ Program(TRUE)
    \/ Take

Spec == Init /\ [][Next]_state

NextAny ==
    \/ DeclareStmt(FALSE)
    \/ RawExprStmt(FALSE)
    \/ AssignStmt(FALSE)
    \/ IfStmt(FALSE)
    \/ Program(FALSE)
    \/ Take

SpecAny == Init /\ [][NextAny]_state

SpecPool == Init /\ [][GetConstCall]_state

NextCalls ==
    \/ GetConstSmall
    \/ CompileExprCall
    \/ DeclareStmt(TRUE)
    \/ CompileCall(TRUE)
    \/ Take

SpecCalls == Init /\ [][NextCalls]_state

NextAlloc ==
    \/ PushTmpCall
    \/ PopTmpCall
    \/ DeclareStmt(FALSE)
    \/ CompileCall(FALSE)
    \/ Take

SpecAlloc == Init /\ [][NextAlloc]_state

----------------------------------------------------------------------------
(* Properties *)

Range(seq) == {seq[i] : i \in 1..Len(seq)}

\* The instruction index a jump at index `at` transfers control to: offsets
\* are deltas from the jump's own index; CondJump(cond, a, b) takes offset a
\* when the condition holds and offset b otherwise.
JumpTarget(at, instr) == at + instr[2]
CondJumpTarget(at, instr, holds) == at + (IF holds THEN instr[3] ELSE instr[4])

Pops == Events(trace, "pop")
ExprReturns == Events(trace, "expr")
Tuples == Events(trace, "mktup")
Ifs == Events(trace, "if")

\* C1: lowering a statement sequence with pairwise distinct declared handles
\* never fails the assert_eq of pop_tmp: every pop_tmp call targets a declared
\* variable's home register or the register on top of the stack
\* (addr = free_reg - 1).
C1_PopsAreLifo ==
    /\ fault # "pop_tmp"
    /\ \A i \in 1..Len(Pops) : Pops[i].home \/ Pops[i].addr = Pops[i].free - 1

C1_Witness ==
    /\ fault = "none"
    /\ \E i, j \in 1..Len(Pops) : Pops[i].home /\ ~Pops[j].home
    /\ Len(Pops) >= 6

\* C2 as stated: after every compile_expr call that returns, free_reg is its
\* value before the call plus one.
C2_Original ==
    \A i \in 1..Len(ExprReturns) :
        ExprReturns[i].post_free = ExprReturns[i].pre_free + 1

\* C2 amended: after compile_expr returns for a Lit, Binop or non-empty Mktup,
\* free_reg is its value before the call plus one and the returned register is
\* that one extra register (the old free_reg); after it returns for a Var,
\* free_reg is unchanged (no register is reserved for the result).
C2_FreeRegAfterExpr ==
    \A i \in 1..Len(ExprReturns) :
        LET e == ExprReturns[i]
        IN IF e.kind = "Var"
           THEN e.post_free = e.pre_free
           ELSE e.post_free = e.pre_free + 1 /\ e.reg = e.pre_free

C2_Witness ==
    /\ fault = "none"
    /\ {"Lit", "Var", "Binop", "Mktup"}
           \subseteq {ExprReturns[i].kind : i \in 1..Len(ExprReturns)}

\* C3: the registers returned for the n elements of a Mktup are start,
\* start+1, ..., start+n-1 in element order, and MkTup(dest, start, end) has
\* end = start + n - 1.
C3_TupleRange ==
    \A i \in 1..Len(Tuples) :
        LET t == Tuples[i]
            n == Len(t.part_addrs)
        IN /\ \A k \in 1..n : t.part_addrs[k] = t.start + k - 1
           /\ t.end = t.start + n - 1

\* C4 as stated: the sequence returned for an If has C + 1 + T + 1 + F
\* instructions.
C4_Original ==
    \A i \in 1..Len(Ifs) :
        Len(Ifs[i].code) = Len(Ifs[i].cond_code) + 1 + Len(Ifs[i].true_code)
                           + 1 + Len(Ifs[i].false_code)

\* C4 amended: the sequence returned for an If has C + 1 + 1 + T + 1 + F
\* instructions: the condition code, one conditional jump, one unconditional
\* jump, the true block, one unconditional jump, the false block.
C4_IfLayout ==
    \A i \in 1..Len(Ifs) :
        LET code == Ifs[i].code
            C == Len(Ifs[i].cond_code)
            T == Len(Ifs[i].true_code)
            F == Len(Ifs[i].false_code)
        IN /\ Len(code) = C + 1 + 1 + T + 1 + F
           /\ SubSeq(code, 1, C) = Ifs[i].cond_code
           /\ code[C + 1][1] = "CondJump"
           /\ code[C + 2][1] = "Jump"
           /\ SubSeq(code, C + 3, C + 2 + T) = Ifs[i].true_code
           /\ code[C + T + 3][1] = "Jump"
           /\ SubSeq(code, C + T + 4, C + T + F + 3) = Ifs[i].false_code

C4_Witness ==
    /\ fault = "none"
    /\ \E i \in 1..Len(Ifs) :
        /\ Len(Ifs[i].cond_code) > 0
        /\ Len(Ifs[i].true_code) > 0
        /\ Len(Ifs[i].false_code) > 0

\* C5: with every offset read as a delta from the index of the jump that
\* holds it, the jump before the true block lands on the first instruction of
\* the false block, the jump before the false block lands one past the last
\* false-block instruction, and the conditional jump lands on the first
\* true-block instruction (first offset) or on the jump before the true block
\* (second offset); also for empty blocks and for nested Ifs.
C5_JumpTargets ==
    \A i \in 1..Len(Ifs) :
        LET code == Ifs[i].code
            C == Len(Ifs[i].cond_code)
            T == Len(Ifs[i].true_code)
            F == Len(Ifs[i].false_code)
            cond_at == C + 1
            skip_true_at == C + 2
            true_at == C + 3
            skip_false_at == C + 3 + T
            false_at == C + 4 + T
            end_at == C + 4 + T + F
        IN /\ code[cond_at][1] = "CondJump"
           /\ CondJumpTarget(cond_at, code[cond_at], TRUE) = true_at
           /\ CondJumpTarget(cond_at, code[cond_at], FALSE) = skip_true_at
           /\ code[skip_true_at][1] = "Jump"
           /\ JumpTarget(skip_true_at, code[skip_true_at]) = false_at
           /\ code[skip_false_at][1] = "Jump"
           /\ JumpTarget(skip_false_at, code[skip_false_at]) = end_at
           /\ end_at = Len(code) + 1

C5_Witness ==
    /\ fault = "none"
    /\ Len(Ifs) >= 2
    /\ \E i, j \in 1..Len(Ifs) :
        /\ Len(Ifs[i].true_code) = 0
        /\ Len(Ifs[i].false_code) > 0
        /\ Len(Ifs[j].true_code) > 1
        /\ Len(Ifs[j].false_code) = 0

\* C6: from a fresh context, compile([Declare(x), Assign(x, 2 + 3)]) returns
\* Const(r, k2), Const(r+1, k3), Add(d, r, r+1), Copy(0, d) where d is the
\* register allocated before r and k2, k3 are the pool positions of 2 and 3;
\* afterwards max_reg = 4, consts = [2, 3] and free_reg = 1.
C6_Scenario ==
    \A x \in Names :
        (/\ pre.vars = New.vars /\ pre.consts = <<>>
         /\ pre.free_reg = 0 /\ pre.max_reg = 0
         /\ call = <<Declare(x), Assign(x, Binop("Add", Lit(2), Lit(3)))>>)
        => /\ fault = "none"
           /\ result = << <<"Const", 2, 0>>, <<"Const", 3, 1>>,
                          <<"Add", 1, 2, 3>>, <<"Copy", 0, 1>> >>
           /\ vars[x] = 0
           /\ consts[result[1][3] + 1] = 2
           /\ consts[result[2][3] + 1] = 3
           /\ max_reg = 4
           /\ consts = <<2, 3>>
           /\ free_reg = 1

C6_Witness ==
    /\ pre.free_reg = 0 /\ pre.max_reg = 0 /\ pre.consts = <<>>
    /\ call = <<Declare(1), Assign(1, Binop("Add", Lit(2), Lit(3)))>>
    /\ Len(result) = 4

\* C7: k Declare statements with pairwise distinct handles, lowered from a
\* fresh context, bind the i-th handle to register i-1 and emit nothing, and
\* the first push_tmp after them returns register k.
C7_DeclareRegisters ==
    /\ decl_only =>
        /\ fault = "none"
        /\ result = <<>>
        /\ DOMAIN vars = Range(declared)
        /\ \A i \in 1..Len(declared) : vars[declared[i]] = i - 1
        /\ free_reg = Len(declared)
        /\ PushTmp(Ctx).reg = Len(declared)
    /\ (pre.trace[1] /\ Events(trace, "push") # <<>>) =>
        Events(trace, "push")[1].reg = Cardinality(DOMAIN pre.vars)

C7_Witness ==
    /\ pre.trace[1]
    /\ Cardinality(DOMAIN pre.vars) = 2
    /\ pre.vars[declared[1]] = 0
    /\ pre.vars[declared[2]] = 1
    /\ call = <<RawExpr(Lit(2))>>
    /\ result = << <<"Const", 2, 0>> >>

\* C8: over any sequence of get_const calls, two requests return the same
\* index exactly when they request equal values.
C8_ConstIndex ==
    \A p \in requested : \A q \in requested : (p[1] = q[1]) <=> (p[2] = q[2])

\* C9: in every operator instruction op(dest, left_reg, right_reg) emitted for
\* a Binop, dest differs from left_reg and from right_reg.
C9_BinopDestDisjoint ==
    \A i \in 1..Len(result) :
        result[i][1] \in BinopTags =>
            result[i][2] # result[i][3] /\ result[i][2] # result[i][4]

C9_Witness ==
    /\ fault = "none"
    /\ \E i, j \in 1..Len(result) :
        /\ result[i][1] \in BinopTags
        /\ result[i][3] \in Homes(Ctx)
        /\ result[j][1] \in BinopTags
        /\ result[j][3] \notin Homes(Ctx) /\ result[j][4] \notin Homes(Ctx)

\* C10: whatever handles are passed to Declare, every register the name table
\* maps a handle to is below free_reg, and pop_tmp called with it returns and
\* leaves free_reg unchanged.
C10_HomeRegistersPermanent ==
    fault = "none" =>
        \A n \in DOMAIN vars :
            /\ vars[n] < free_reg
            /\ PopTmp(Ctx, vars[n]).fault = "none"
            /\ PopTmp(Ctx, vars[n]).free_reg = free_reg

\* C11: across any sequence of push_tmp, pop_tmp and compile calls, max_reg
\* never decreases, max_reg >= free_reg in every state, and max_reg is the
\* largest value free_reg has held so far.
C11_HighWaterMark ==
    /\ max_reg >= pre.max_reg
    /\ max_reg >= free_reg
    /\ max_reg = peak

\* C15: pop_tmp(addr) with addr not below the number of name-table entries:
\* if addr = free_reg - 1 it returns with free_reg = addr and the name table,
\* the pool and max_reg unchanged; for any other addr it ends in a panic.
C15_PopTmpContract ==
    (Len(call) = 1 /\ call[1][1] = "pop_tmp") =>
        LET addr == call[1][2]
        IN addr >= Cardinality(DOMAIN pre.vars) =>
            IF addr = pre.free_reg - 1
            THEN /\ fault = "none"
                 /\ free_reg = addr
                 /\ vars = pre.vars
                 /\ consts = pre.consts
                 /\ max_reg = pre.max_reg
            ELSE fault # "none"

\* C12: over any sequence of get_const and compile calls the pool holds no
\* two equal values, its length never decreases, and a value stored at index
\* i stays at index i.
C12_PoolAppendOnly ==
    /\ NoDuplicates(consts)
    /\ Len(consts) >= Len(pre.consts)
    /\ \A i \in 1..Len(pre.consts) : consts[i] = pre.consts[i]

C12_Witness ==
    /\ Len(call) = 1 /\ call[1][1] = "get_const"
    /\ Len(pre.consts) >= 2
    /\ consts = pre.consts
    /\ result = <<1>>

IsExprCall == Len(call) = 1 /\ call[1][1] = "compile_expr"

\* C13: compile_expr(Mktup([])), alone or as the first failing part of a
\* larger expression, returns no register and no MkTup instruction: the call
\* ends in the assertion on the missing start address.
C13_EmptyTupleRejected ==
    (IsExprCall /\ call[1][2] \in {Mktup(<<>>), Mktup(<<Lit(2), Mktup(<<>>)>>),
                                    Binop("Add", Lit(3), Mktup(<<>>))})
        => /\ fault = "start_addr"
           /\ result = <<>>
           /\ \A i \in 1..Len(trace) : trace[i].ev # "mktup"

C13_Witness ==
    /\ IsExprCall /\ call[1][2] = Mktup(<<>>)
    /\ fault = "start_addr"
    /\ pre.free_reg > 0

\* C14: compile_expr(Var(n)) and compile_stmt(Assign(n, e)) with n not in
\* the name table end in a panic and return no instructions; for Assign the
\* panic comes before e is lowered: free_reg, max_reg and the pool are as
\* before the call and no allocator call was made.
C14_UndeclaredIsFatal ==
    /\ (IsExprCall /\ call[1][2][1] = "Var" /\ call[1][2][2] \notin DOMAIN pre.vars)
        => fault = "no_var" /\ result = <<>>
    /\ (Len(call) = 1 /\ call[1][1] = "Assign" /\ call[1][2] \notin DOMAIN pre.vars)
        => /\ fault = "no_var"
           /\ result = <<>>
           /\ free_reg = pre.free_reg
           /\ max_reg = pre.max_reg
           /\ consts = pre.consts
           /\ trace = <<>>

C14_Witness ==
    /\ Len(call) = 1 /\ call[1][1] = "Assign"
    /\ call[1][2] \notin DOMAIN pre.vars
    /\ call[1][3][1] = "Lit"
    /\ DOMAIN pre.vars # {}
    /\ fault = "no_var"

\* C16: compile_expr(Var(n)) for a declared n returns (vars[n], no
\* instructions) and leaves free_reg, max_reg, the name table and the pool as
\* they were.
C16_VarIsPure ==
    (IsExprCall /\ call[1][2][1] = "Var" /\ call[1][2][2] \in DOMAIN pre.vars)
        => /\ fault = "none"
           /\ result = <<pre.vars[call[1][2][2]], <<>> >>
           /\ vars = pre.vars
           /\ consts = pre.consts
           /\ free_reg = pre.free_reg
           /\ max_reg = pre.max_reg

C16_Witness ==
    /\ IsExprCall /\ call[1][2][1] = "Var"
    /\ call[1][2][2] \in DOMAIN pre.vars
    /\ fault = "none"
    /\ result[1] + 1 < free_reg
    /\ consts # <<>>

\* C17: compile_expr(Binop(op, left, right)) returns as result register the
\* value free_reg had before the call; the returned sequence is the left
\* operand's instructions, then the right operand's, then the single
\* instruction op(result, left_reg, right_reg); and the right operand's
\* register is released before the left operand's.
C17_BinopShape ==
    \A k \in 1..Len(trace) :
        trace[k].ev = "binop" =>
            LET b == trace[k]
                L == Len(b.left_code)
                R == Len(b.right_code)
            IN /\ b.reg = b.pre_free
               /\ Len(b.code) = L + R + 1
               /\ SubSeq(b.code, 1, L) = b.left_code
               /\ SubSeq(b.code, L + 1, L + R) = b.right_code
               /\ b.code[L + R + 1] = <<b.op, b.reg, b.left_reg, b.right_reg>>
               /\ k > 2
               /\ trace[k - 2].ev = "pop" /\ trace[k - 2].addr = b.right_reg
               /\ trace[k - 1].ev = "pop" /\ trace[k - 1].addr = b.left_reg
               /\ trace[k + 1].ev = "expr"
               /\ trace[k + 1].reg = b.reg /\ trace[k + 1].code = b.code

C17_Witness ==
    /\ fault = "none"
    /\ \E k \in 1..Len(trace) :
        /\ trace[k].ev = "binop"
        /\ Len(trace[k].left_code) > 1
        /\ Len(trace[k].right_code) > 1
        /\ trace[k].left_code # trace[k].right_code
        /\ trace[k].pre_free > 0

\* C18: compile_stmt(RawExpr(e)) and compile_stmt(Assign(n, e)) that return
\* leave free_reg and the name table as before the call, the expression's
\* result register being released last; RawExpr returns exactly e's
\* instructions, Assign returns e's instructions followed by the one
\* instruction Copy(vars[n], result_reg).
C18_StmtFrame ==
    \A k \in 1..Len(trace) :
        (trace[k].ev = "stmt" /\ trace[k].stmt[1] \in {"RawExpr", "Assign"}) =>
            LET s == trace[k]
                e == trace[k - 2]
                p == trace[k - 1]
            IN /\ k > 2
               /\ e.ev = "expr"
               /\ p.ev = "pop" /\ p.addr = e.reg
               /\ s.post_free = s.pre_free
               /\ s.post_vars = s.pre_vars
               /\ IF s.stmt[1] = "RawExpr"
                  THEN s.code = e.code
                  ELSE s.code = Append(e.code,
                                       <<"Copy", s.pre_vars[s.stmt[2]], e.reg>>)

\* free_reg equals the number k of name-table entries and the name table
\* maps its handles one-to-one onto the registers 0..k-1.
Boundary(free, v) ==
    /\ free = Cardinality(DOMAIN v)
    /\ {v[n] : n \in DOMAIN v} = 0..(free - 1)

\* C19: with pairwise distinct Declare handles, at every statement boundary
\* (before and after each compile_stmt call, at any nesting depth) free_reg
\* equals the number k of name-table entries and the name table maps its
\* handles one-to-one onto 0..k-1; pop_tmp's test addr < vars.len() is true
\* exactly for home registers; every register push_tmp returns is above every
\* home register.
C19_StatementBoundaries ==
    /\ Boundary(pre.free_reg, pre.vars)
    /\ fault = "none" => Boundary(free_reg, vars)
    /\ \A k \in 1..Len(trace) :
        /\ trace[k].ev = "stmt" =>
            /\ Boundary(trace[k].pre_free, trace[k].pre_vars)
            /\ Boundary(trace[k].post_free, trace[k].post_vars)
        /\ trace[k].ev = "pop" =>
            (trace[k].addr < trace[k].nvars <=> trace[k].home)
        /\ trace[k].ev = "push" =>
            \A h \in trace[k].homes : trace[k].reg > h

C19_Witness ==
    /\ fault = "none"
    /\ Len(Events(trace, "stmt")) >= 4
    /\ \E k \in 1..Len(trace) :
        /\ trace[k].ev = "stmt" /\ trace[k].stmt[1] = "Declare"
        /\ trace[k].pre_free = 1
    /\ \E i, j \in 1..Len(Pops) : Pops[i].home /\ ~Pops[j].home

\* The registers the instructions of code write.
Dests(code) ==
    {code[i][2] : i \in {j \in 1..Len(code) : code[j][1] \notin {"Jump", "CondJump"}}}

\* Parts (2) and (3) of C20: no instruction of a Binop's right operand
\* writes the register returned for its left operand; no instruction of a
\* later Mktup element writes the register returned for an earlier element or
\* the tuple's own result register.
OperandsKept ==
    \A k \in 1..Len(trace) :
        /\ trace[k].ev = "binop" =>
            trace[k].left_reg \notin Dests(trace[k].right_code)
        /\ trace[k].ev = "mktup" =>
            \A i, j \in 1..Len(trace[k].part_addrs) :
                j < i => /\ trace[k].part_addrs[j] \notin Dests(trace[k].part_codes[i])
                         /\ trace[k].reg \notin Dests(trace[k].part_codes[i])

\* C20 as stated: with pairwise distinct Declare handles, (1) no instruction
\* emitted by compile_expr writes the home register of any variable the
\* program declares, so that only Copy instructions write a home register;
\* (2) and (3) as in OperandsKept.
C20_Original ==
    /\ fault = "none" =>
        /\ \A k \in 1..Len(trace) :
            trace[k].ev = "expr" => Dests(trace[k].code) \cap Homes(Ctx) = {}
        /\ \A i \in 1..Len(result) :
            (/\ result[i][1] \notin {"Jump", "CondJump"}
             /\ result[i][2] \in Homes(Ctx))
            => result[i][1] = "Copy"
    /\ OperandsKept

\* C20 amended: with pairwise distinct Declare handles, (1) no instruction
\* emitted by compile_expr writes the home register of a variable declared
\* when the instruction is emitted, and the only instructions of a statement
\* that write a register that was a home register when the statement began
\* are Copy instructions; (2) and (3) as in OperandsKept.
C20_NoClobber ==
    /\ \A k \in 1..Len(trace) :
        /\ trace[k].ev = "expr" => Dests(trace[k].code) \cap trace[k].homes = {}
        /\ trace[k].ev = "stmt" =>
            \A i \in 1..Len(trace[k].code) :
                LET instr == trace[k].code[i]
                    v == trace[k].pre_vars
                IN (/\ instr[1] \notin {"Jump", "CondJump"}
                    /\ instr[2] \in {v[n] : n \in DOMAIN v})
                   => instr[1] = "Copy"
    /\ OperandsKept

C20_Witness ==
    /\ fault = "none"
    /\ vars # New.vars
    /\ \E k \in 1..Len(trace) :
        /\ trace[k].ev = "binop"
        /\ trace[k].right_code # <<>>
        /\ trace[k].left_code # <<>>
    /\ \E k \in 1..Len(trace) :
        /\ trace[k].ev = "mktup"
        /\ Len(trace[k].part_codes) >= 2
        /\ trace[k].part_codes[2] # <<>>

====
